---- MODULE Spec2Model ----
(***************************************************************************)
(* Item resolution helper of the Iris front end: getMissingDependents,     *)
(* getDependentUris and ensureLoaded (index -> cold store -> fetch).       *)
(*                                                                         *)
(* Spec            one call site, every stored entity and request option   *)
(* SpecConcurrent  several invocations and the fetch delegate's result     *)
(* SpecEval        direct calls of the two exported pure functions         *)
(*                                                                         *)
(* The event loop runs each callback to completion, so the synchronous     *)
(* part of ensureLoaded and each promise callback is one step.  The index  *)
(* is the one container named by containerName.                            *)
(***************************************************************************)
EXTENDS Integers, Sequences, FiniteSets, TLC

VARIABLES
    index,      \* store.getState().core[containerName]: uri -> entity or Absent
    cold,       \* localForage: uri -> entity or Absent
    loading,    \* the loading flags the ui reducer keeps per uri
    config,     \* the resolver configuration of the call site
    calls,      \* one record per ensureLoaded invocation
    eval        \* a direct call of one of the two exported pure functions

vars == <<index, cold, loading, config, calls, eval>>

(***************************************************************************)
(* Bounds of the model.                                                    *)
(***************************************************************************)
MaxCalls == 1      \* ensureLoaded invocations of one behaviour of Spec
MaxConcurrent == 2 \* ensureLoaded invocations of one behaviour of SpecConcurrent
MaxDeps == 2       \* length of a dependent-name sequence given to the pure functions

(***************************************************************************)
(* Attribute names are character sequences, so that the *_uri* test is a   *)
(* substring search as in the code.                                        *)
(***************************************************************************)
N_uri == <<"u", "r", "i">>
N_name == <<"n", "a", "m", "e">>
N_artists_uris == <<"a", "r", "t", "i", "s", "t", "s", "_", "u", "r", "i", "s">>
N_tracks_uris == <<"t", "r", "a", "c", "k", "s", "_", "u", "r", "i", "s">>

DependentNames == {N_name, N_artists_uris, N_tracks_uris}

URIs == {"x", "a", "b"}

(***************************************************************************)
(* JavaScript values held by an entity attribute.                          *)
(***************************************************************************)
Undefined == [kind |-> "undefined", text |-> "", elems |-> <<>>]
Null == [kind |-> "null", text |-> "", elems |-> <<>>]
Str(s) == [kind |-> "string", text |-> s, elems |-> <<>>]
Arr(seq) == [kind |-> "array", text |-> "", elems |-> seq]

\* No entity: undefined in the index, null from localForage.getItem.
Absent == [present |-> FALSE, attrs |-> [n \in {} |-> Undefined]]
Entity(f) == [present |-> TRUE, attrs |-> f]

\* item[dep]
Get(item, dep) == IF dep \in DOMAIN item.attrs THEN item.attrs[dep] ELSE Undefined

\* item.uri
UriOf(item) == Get(item, N_uri).text

SeqsUpTo(S, n) == UNION {[1..k -> S] : k \in 0..n}

(***************************************************************************)
(* getMissingDependents                                                    *)
(***************************************************************************)
IsMissing(item, dep) == Get(item, dep).kind \in {"undefined", "null"}

\* variant: the full flag is not consulted, fullDependents are always required
getMissingDependents_alwaysFull(item, dependents, fullDependents, full) ==
    LET allDependents == dependents \o fullDependents
    IN  IF ~item.present THEN allDependents
        ELSE SelectSeq(allDependents, LAMBDA dep : IsMissing(item, dep))

\* variant: an absent entity is reported against the full flag as well
getMissingDependents_absentByFull(item, dependents, fullDependents, full) ==
    LET allDependents == dependents \o fullDependents
    IN  IF ~item.present THEN (IF full THEN allDependents ELSE dependents)
        ELSE IF full THEN SelectSeq(allDependents, LAMBDA dep : IsMissing(item, dep))
        ELSE SelectSeq(dependents, LAMBDA dep : IsMissing(item, dep))

getMissingDependents(item, dependents, fullDependents, full) ==
    LET allDependents == dependents \o fullDependents
    IN  IF ~item.present THEN allDependents
        ELSE IF full THEN SelectSeq(allDependents, LAMBDA dep : IsMissing(item, dep))
        ELSE SelectSeq(dependents, LAMBDA dep : IsMissing(item, dep))

(***************************************************************************)
(* getDependentUris                                                        *)
(***************************************************************************)
\* variant: the pattern test lets every name through
MatchesUriPattern_any(dep) == Len(dep) >= 0

\* dep.match(new RegExp('(.*)_uri(.*)')): the name contains "_uri"
MatchesUriPattern(dep) ==
    LET pat == <<"_", "u", "r", "i">>
    IN  \E i \in 1..(Len(dep) - Len(pat) + 1) : SubSeq(dep, i, i + Len(pat) - 1) = pat

getUrisOfDependent(item, dep) ==
    IF ~MatchesUriPattern(dep) THEN <<>>
    ELSE LET uris == Get(item, dep)
         IN  IF uris.kind = "array" THEN uris.elems ELSE <<>>

RECURSIVE ReduceUris(_, _, _)
ReduceUris(item, deps, acc) ==
    IF deps = <<>> THEN acc
    ELSE ReduceUris(item, Tail(deps), acc \o getUrisOfDependent(item, Head(deps)))

getDependentUris(item, dependents, fullDependents) ==
    IF ~item.present THEN <<>>
    ELSE ReduceUris(item, dependents \o fullDependents, <<>>)

(***************************************************************************)
(* What one ensureLoaded invocation does, in order: the reads, the         *)
(* dispatches, the fetch() call and the return to the caller.              *)
(***************************************************************************)
NoPayload == [k \in {} |-> TRUE]

Ev(op, uri) ==
    [op |-> op, uri |-> uri, flag |-> FALSE, type |-> "", uris |-> <<>>,
     items |-> <<>>, payload |-> NoPayload]

GetStateEv(uri) == Ev("getState", uri)                 \* store.getState().core[containerName][uri]
GetItemEv(uri) == Ev("getItem", uri)                   \* localForage.getItem(uri) issued
ResolvedEv(uri) == Ev("resolved", uri)                 \* that read's promise resolved
RejectedEv(uri) == Ev("rejected", uri)                 \* that read's promise rejected
FetchEv == Ev("fetch", "")                             \* fetch()
ReturnEv == Ev("return", "")                           \* ensureLoaded returns to its caller

\* the action creators of services/core, services/ui and services/mopidy
setLoading(uri, isLoading) == [Ev("setLoading", uri) EXCEPT !.flag = isLoading]
stopLoading(uri) == Ev("stopLoading", uri)
loadItems(type, uris) == [Ev("loadItems", "") EXCEPT !.type = type, !.uris = uris]
restoreItemsFromColdStore(items) == [Ev("restoreItemsFromColdStore", "") EXCEPT !.items = items]
enqueueURIs(payload) == [Ev("enqueueURIs", "") EXCEPT !.payload = payload]
playURIs(payload) == [Ev("playURIs", "") EXCEPT !.payload = payload]

\* util/format formatContext: the "from" context of an entity
formatContext(item) == [uri |-> UriOf(item), name |-> Get(item, N_name).text]

\* { ...a, ...b }
Spread(a, b) == [k \in DOMAIN a \cup DOMAIN b |-> IF k \in DOMAIN b THEN b[k] ELSE a[k]]

NoCallback == [present |-> FALSE, fields |-> NoPayload]
Callback(fields) == [present |-> TRUE, fields |-> fields]

CallbackName(callbackAction) ==
    IF "name" \in DOMAIN callbackAction.fields THEN callbackAction.fields.name ELSE ""

\* variant: the two cases of the switch are exchanged
runCallback_swapped(callbackAction, item) ==
    LET payload == Spread([uris |-> <<UriOf(item)>>, from |-> formatContext(item)],
                          callbackAction.fields)
    IN  CASE CallbackName(callbackAction) = "enqueue" -> <<playURIs(payload)>>
          [] CallbackName(callbackAction) = "play" -> <<enqueueURIs(payload)>>
          [] OTHER -> <<>>

\* the dispatches of runCallback(item)
runCallback(callbackAction, item) ==
    LET payload == Spread([uris |-> <<UriOf(item)>>, from |-> formatContext(item)],
                          callbackAction.fields)
    IN  CASE CallbackName(callbackAction) = "enqueue" -> <<enqueueURIs(payload)>>
          [] CallbackName(callbackAction) = "play" -> <<playURIs(payload)>>
          [] OTHER -> <<>>

\* if (callbackAction) runCallback(item)
MaybeCallback(callbackAction, item) ==
    IF callbackAction.present THEN runCallback(callbackAction, item) ELSE <<>>

\* variant: the closure does not pass the full flag on
missingDependents_withoutFull(cfg, full, itemToCheck) ==
    getMissingDependents(itemToCheck, cfg.dependents, cfg.fullDependents, FALSE)

\* the closures of ensureLoaded over the resolver configuration
missingDependents(cfg, full, itemToCheck) ==
    getMissingDependents(itemToCheck, cfg.dependents, cfg.fullDependents, full)

\* variant: the URIs are taken from the names of dependents alone
dependentUris_dependentsOnly(cfg, itemToCheck) ==
    getDependentUris(itemToCheck, cfg.dependents, <<>>)

dependentUris(cfg, itemToCheck) ==
    getDependentUris(itemToCheck, cfg.dependents, cfg.fullDependents)

(***************************************************************************)
(* The reducers behind dispatch, which runs them before it returns.        *)
(***************************************************************************)
RECURSIVE RestoreInto(_, _)
RestoreInto(idx, items) ==
    IF items = <<>> THEN idx
    ELSE RestoreInto([idx EXCEPT ![UriOf(Head(items))] = Head(items)], Tail(items))

ReduceIndexOne(idx, ev) ==
    IF ev.op = "restoreItemsFromColdStore" THEN RestoreInto(idx, ev.items) ELSE idx

ReduceLoadingOne(ld, ev) ==
    CASE ev.op = "setLoading" -> [ld EXCEPT ![ev.uri] = ev.flag]
      [] ev.op = "stopLoading" -> [ld EXCEPT ![ev.uri] = FALSE]
      [] OTHER -> ld

RECURSIVE ReduceIndex(_, _)
ReduceIndex(idx, evs) ==
    IF evs = <<>> THEN idx ELSE ReduceIndex(ReduceIndexOne(idx, Head(evs)), Tail(evs))

RECURSIVE ReduceLoading(_, _)
ReduceLoading(ld, evs) ==
    IF evs = <<>> THEN ld ELSE ReduceLoading(ReduceLoadingOne(ld, Head(evs)), Tail(evs))

(***************************************************************************)
(* ensureLoaded, the synchronous part (up to its return).                  *)
(***************************************************************************)
\* if (forceRefetch) { dispatch(setLoading(uri, true)); fetch(); return; }
ForceRefetchSteps(uri) == <<setLoading(uri, TRUE), FetchEv, ReturnEv>>

\* if (item) { if (missingDependents(item).length === 0) {
IndexSatisfied(cfg, full, item) ==
    item.present /\ Len(missingDependents(cfg, full, item)) = 0

\* variant: loadItems is dispatched without the test of uris.length
IndexSatisfiedSteps_alwaysLoad(cfg, uri, callbackAction, item) ==
    <<stopLoading(uri), loadItems(cfg.type, dependentUris(cfg, item))>>
    \o MaybeCallback(callbackAction, item)
    \o <<ReturnEv>>

\* ... stopLoading, loadItems, runCallback, return } }
IndexSatisfiedSteps(cfg, uri, callbackAction, item) ==
    LET uris == dependentUris(cfg, item)
    IN  <<stopLoading(uri)>>
        \o (IF Len(uris) > 0 THEN <<loadItems(cfg.type, uris)>> ELSE <<>>)
        \o MaybeCallback(callbackAction, item)
        \o <<ReturnEv>>

\* variant: the read is awaited, the call does not return at this point
ColdStoreSteps_awaited(uri) == <<GetItemEv(uri)>>

\* variant: fetch() is called as soon as the index misses, before the cold store answers
ColdStoreSteps_fetchFirst(uri) == <<setLoading(uri, TRUE), FetchEv, GetItemEv(uri), ReturnEv>>

\* localForage.getItem(uri).then(...): the read is issued and the call returns
ColdStoreSteps(uri) == <<GetItemEv(uri), ReturnEv>>

\* variant: the index is tried before the forceRefetch test
Branch_indexFirst(cfg, item, forceRefetch, full) ==
    IF IndexSatisfied(cfg, full, item) THEN "index"
    ELSE IF forceRefetch THEN "force"
    ELSE "cold"

Branch(cfg, item, forceRefetch, full) ==
    IF forceRefetch THEN "force"
    ELSE IF IndexSatisfied(cfg, full, item) THEN "index"
    ELSE "cold"

EnsureLoadedSteps(cfg, idx, uri, forceRefetch, full, callbackAction) ==
    LET item == idx[uri]
        branch == Branch(cfg, item, forceRefetch, full)
    IN  <<GetStateEv(uri)>>
        \o (CASE branch = "force" -> ForceRefetchSteps(uri)
              [] branch = "index" -> IndexSatisfiedSteps(cfg, uri, callbackAction, item)
              [] OTHER -> ColdStoreSteps(uri))

(***************************************************************************)
(* ensureLoaded, the callback of the cold-store read of uri.               *)
(***************************************************************************)
\* if (!restoredItem || missingDependents(restoredItem).length > 0)
ColdMiss(cfg, full, restoredItem) ==
    ~restoredItem.present \/ Len(missingDependents(cfg, full, restoredItem)) > 0

\* variant: the loading flag is raised but fetch() is not called
ColdMissSteps_noFetch(uri) == <<setLoading(uri, TRUE)>>

ColdMissSteps(uri) == <<setLoading(uri, TRUE), FetchEv>>

RECURSIVE GetItemEvs(_)
GetItemEvs(uris) ==
    IF uris = <<>> THEN <<>> ELSE <<GetItemEv(Head(uris))>> \o GetItemEvs(Tail(uris))

\* variant: the loading flag is lowered when the entity comes from the cold store
ColdHitSteps_stopsLoading(cfg, callbackAction, restoredItem) ==
    <<stopLoading(UriOf(restoredItem)), restoreItemsFromColdStore(<<restoredItem>>)>>
    \o MaybeCallback(callbackAction, restoredItem)
    \o GetItemEvs(dependentUris(cfg, restoredItem))

\* variant: the callback is run after the dependent reads have been issued
ColdHitSteps_callbackLast(cfg, callbackAction, restoredItem) ==
    <<restoreItemsFromColdStore(<<restoredItem>>)>>
    \o GetItemEvs(dependentUris(cfg, restoredItem))
    \o MaybeCallback(callbackAction, restoredItem)

ColdHitSteps(cfg, callbackAction, restoredItem) ==
    <<restoreItemsFromColdStore(<<restoredItem>>)>>
    \o MaybeCallback(callbackAction, restoredItem)
    \o GetItemEvs(dependentUris(cfg, restoredItem))

\* variant: the callback is run on an incomplete cold-store entity that is then fetched
ColdResolvedSteps_callbackOnMiss(cfg, uri, full, callbackAction, restoredItem) ==
    <<ResolvedEv(uri)>>
    \o (IF ~restoredItem.present THEN ColdMissSteps(uri)
        ELSE IF ColdMiss(cfg, full, restoredItem)
             THEN MaybeCallback(callbackAction, restoredItem) \o ColdMissSteps(uri)
        ELSE ColdHitSteps(cfg, callbackAction, restoredItem))

\* variant: an incomplete cold-store entity is restored before it is fetched
ColdResolvedSteps_restoreThenFetch(cfg, uri, full, callbackAction, restoredItem) ==
    <<ResolvedEv(uri)>>
    \o (IF ~restoredItem.present THEN ColdMissSteps(uri)
        ELSE IF ColdMiss(cfg, full, restoredItem)
             THEN <<restoreItemsFromColdStore(<<restoredItem>>)>> \o ColdMissSteps(uri)
        ELSE ColdHitSteps(cfg, callbackAction, restoredItem))

ColdResolvedSteps(cfg, uri, full, callbackAction, restoredItem) ==
    <<ResolvedEv(uri)>>
    \o (IF ColdMiss(cfg, full, restoredItem) THEN ColdMissSteps(uri)
        ELSE ColdHitSteps(cfg, callbackAction, restoredItem))

\* a dependent read: not yet settled, or resolved with an entity or with null
Pending == [state |-> "pending", item |-> Absent]
Settled(item) == [state |-> "resolved", item |-> item]

\* variant: the results are restored as they come, the null ones among them
compact_keepAll(dependentItems) == dependentItems

\* compact(dependentItems)
compact(dependentItems) == SelectSeq(dependentItems, LAMBDA it : it.present)

RECURSIVE ItemsOf(_)
ItemsOf(results) ==
    IF results = <<>> THEN <<>> ELSE <<Head(results).item>> \o ItemsOf(Tail(results))

\* variant: nothing is dispatched when none of the dependents was found
DependentsRestoredSteps_skipEmpty(results) ==
    IF compact(ItemsOf(results)) = <<>> THEN <<>>
    ELSE <<restoreItemsFromColdStore(compact(ItemsOf(results)))>>

\* variant: one restoration per dependent found
DependentsRestoredSteps_oneByOne(results) ==
    [k \in 1..Len(compact(ItemsOf(results))) |->
        restoreItemsFromColdStore(<<compact(ItemsOf(results))[k]>>)]

\* Promise.all(restoreAllDependents).then(...)
DependentsRestoredSteps(results) == <<restoreItemsFromColdStore(compact(ItemsOf(results)))>>

(***************************************************************************)
(* The entities, configurations and requests the model draws from.         *)
(***************************************************************************)
\* an entity holds the attributes whose value is not undefined
MkEntity(uri, name, artists, tracks) ==
    LET all == (N_uri :> Str(uri)) @@ (N_name :> name)
               @@ (N_artists_uris :> artists) @@ (N_tracks_uris :> tracks)
    IN  Entity([n \in {m \in DOMAIN all : all[m].kind # "undefined"} |-> all[n]])

RequestUris == {"x"}

\* what the index or the cold store may hold for a requested uri
StoredEntities(uri) ==
    {MkEntity(uri, Str("Foo"), ar, tr) :
        ar \in {Undefined, Arr(<<"a">>)}, tr \in {Undefined, Arr(<<"b">>)}}
    \cup {MkEntity(uri, Str("Foo"), Null, Undefined)}

\* what the cold store may hold for a dependent uri
DependentEntity(uri) == MkEntity(uri, Str("Dep"), Undefined, Undefined)

\* what the fetch delegate puts into the index
FetchedEntity(uri) == MkEntity(uri, Str("Foo"), Arr(<<"a">>), Arr(<<"b">>))

Configs ==
    {[dependents |-> d, fullDependents |-> f, type |-> "albums"] :
        d \in {<<N_name>>, <<N_artists_uris>>}, f \in {<<>>, <<N_tracks_uris>>}}

CallbackActions ==
    {NoCallback, Callback([name |-> "play"]), Callback([name |-> "enqueue", play_next |-> TRUE]),
     Callback([name |-> "other"])}

IdleCall ==
    [pc |-> "idle", uri |-> "", forceRefetch |-> FALSE, full |-> FALSE,
     callbackAction |-> NoCallback, item |-> Absent, trace |-> <<>>, uris |-> <<>>,
     results |-> <<>>]

NoEval ==
    [op |-> "off", item |-> Absent, dependents |-> <<>>, fullDependents |-> <<>>,
     full |-> FALSE, missing |-> <<>>, uris |-> <<>>]

\* the cold store holds the dependents in full, in part, or not at all
ColdStores(entities) ==
    {f \in [URIs -> {Absent} \cup entities \cup {DependentEntity(u) : u \in URIs \ RequestUris}] :
        /\ \A u \in URIs : f[u].present => UriOf(f[u]) = u
        /\ f["b"].present => f["a"].present}

Indexes(entities) ==
    {f \in [URIs -> {Absent} \cup entities] :
        \A u \in URIs : /\ f[u].present => UriOf(f[u]) = u
                        /\ u \notin RequestUris => ~f[u].present}

Init ==
    /\ index \in Indexes(UNION {StoredEntities(u) : u \in RequestUris})
    /\ cold \in ColdStores(UNION {StoredEntities(u) : u \in RequestUris})
    /\ loading = [u \in URIs |-> FALSE]
    /\ config \in Configs
    /\ calls = [i \in 1..MaxCalls |-> IdleCall]
    /\ eval = NoEval

\* concurrent invocations of one call site over whole entities
InitConcurrent ==
    /\ index \in Indexes({FetchedEntity(u) : u \in RequestUris})
    /\ cold \in ColdStores({FetchedEntity(u) : u \in RequestUris})
    /\ loading = [u \in URIs |-> FALSE]
    /\ config = [dependents |-> <<N_artists_uris>>, fullDependents |-> <<N_tracks_uris>>,
                 type |-> "albums"]
    /\ calls = [i \in 1..MaxConcurrent |-> IdleCall]
    /\ eval = NoEval

(***************************************************************************)
(* The actions.                                                            *)
(***************************************************************************)
\* one invocation takes the given steps and is left at the given point
Invocation(i, uri, forceRefetch, full, callbackAction, steps, pc) ==
    /\ calls[i].pc = "idle"
    /\ i > 1 => calls[i - 1].pc # "idle"
    /\ calls' = [calls EXCEPT ![i] =
                    [IdleCall EXCEPT !.pc = pc, !.uri = uri, !.forceRefetch = forceRefetch,
                                     !.full = full, !.callbackAction = callbackAction,
                                     !.item = index[uri], !.trace = steps]]
    /\ index' = ReduceIndex(index, steps)
    /\ loading' = ReduceLoading(loading, steps)
    /\ UNCHANGED <<cold, config, eval>>

PcAfter(branch) ==
    CASE branch = "force" -> "fetching"
      [] branch = "index" -> "done"
      [] OTHER -> "coldRead"

\* variant: a uri that an earlier invocation has served is not served again
EnsureLoaded_servedOnce(i, uri, forceRefetch, full, callbackAction) ==
    IF \E j \in DOMAIN calls : calls[j].pc = "done" /\ calls[j].uri = uri
    THEN Invocation(i, uri, forceRefetch, full, callbackAction,
                    <<GetStateEv(uri), ReturnEv>>, "done")
    ELSE Invocation(i, uri, forceRefetch, full, callbackAction,
                    EnsureLoadedSteps(config, index, uri, forceRefetch, full, callbackAction),
                    PcAfter(Branch(config, index[uri], forceRefetch, full)))

\* ensureLoaded({ store, action: { uri, options }, fetch, ... }) up to its return
EnsureLoaded(i, uri, forceRefetch, full, callbackAction) ==
    Invocation(i, uri, forceRefetch, full, callbackAction,
               EnsureLoadedSteps(config, index, uri, forceRefetch, full, callbackAction),
               PcAfter(Branch(config, index[uri], forceRefetch, full)))

\* variant: the callback looks at the index again and is served from it when it can be
ColdResolves_rereadsIndex(i) ==
    LET c == calls[i]
        restoredItem == cold[c.uri]
        served == IndexSatisfied(config, c.full, index[c.uri])
        miss == ColdMiss(config, c.full, restoredItem)
        steps == IF served
                 THEN <<ResolvedEv(c.uri), GetStateEv(c.uri), stopLoading(c.uri)>>
                 ELSE ColdResolvedSteps(config, c.uri, c.full, c.callbackAction, restoredItem)
        uris == dependentUris(config, restoredItem)
    IN  /\ c.pc = "coldRead"
        /\ calls' = [calls EXCEPT ![i] =
                        [c EXCEPT !.pc = IF served THEN "done"
                                         ELSE IF miss THEN "fetching"
                                         ELSE IF Len(uris) > 0 THEN "depReads" ELSE "done",
                                  !.trace = c.trace \o steps,
                                  !.uris = IF served \/ miss THEN <<>> ELSE uris,
                                  !.results = IF served \/ miss THEN <<>>
                                              ELSE [k \in 1..Len(uris) |-> Pending]]]
        /\ index' = ReduceIndex(index, steps)
        /\ loading' = ReduceLoading(loading, steps)
        /\ UNCHANGED <<cold, config, eval>>

\* variant: on a miss the callback itself drops the entity from the index
ColdResolves_evicts(i) ==
    LET c == calls[i]
        restoredItem == cold[c.uri]
        miss == ColdMiss(config, c.full, restoredItem)
        steps == ColdResolvedSteps(config, c.uri, c.full, c.callbackAction, restoredItem)
        uris == dependentUris(config, restoredItem)
    IN  /\ c.pc = "coldRead"
        /\ calls' = [calls EXCEPT ![i] =
                        [c EXCEPT !.pc = IF miss THEN "fetching"
                                         ELSE IF Len(uris) > 0 THEN "depReads" ELSE "done",
                                  !.trace = c.trace \o steps,
                                  !.uris = IF miss THEN <<>> ELSE uris,
                                  !.results = IF miss THEN <<>>
                                              ELSE [k \in 1..Len(uris) |-> Pending]]]
        /\ index' = IF miss THEN [index EXCEPT ![c.uri] = Absent]
                     ELSE ReduceIndex(index, steps)
        /\ loading' = ReduceLoading(loading, steps)
        /\ UNCHANGED <<cold, config, eval>>

\* variant: a miss does not fetch while the loading flag of the uri is raised
ColdResolves_deduplicated(i) ==
    LET c == calls[i]
        restoredItem == cold[c.uri]
        miss == ColdMiss(config, c.full, restoredItem)
        steps == IF miss /\ loading[c.uri] THEN <<ResolvedEv(c.uri)>>
                 ELSE ColdResolvedSteps(config, c.uri, c.full, c.callbackAction, restoredItem)
        uris == dependentUris(config, restoredItem)
    IN  /\ c.pc = "coldRead"
        /\ calls' = [calls EXCEPT ![i] =
                        [c EXCEPT !.pc = IF miss /\ loading[c.uri] THEN "done"
                                         ELSE IF miss THEN "fetching"
                                         ELSE IF Len(uris) > 0 THEN "depReads" ELSE "done",
                                  !.trace = c.trace \o steps,
                                  !.uris = IF miss THEN <<>> ELSE uris,
                                  !.results = IF miss THEN <<>>
                                              ELSE [k \in 1..Len(uris) |-> Pending]]]
        /\ index' = ReduceIndex(index, steps)
        /\ loading' = ReduceLoading(loading, steps)
        /\ UNCHANGED <<cold, config, eval>>

\* the cold-store read of uri resolves: the .then callback runs
ColdResolves(i) ==
    LET c == calls[i]
        restoredItem == cold[c.uri]
        steps == ColdResolvedSteps(config, c.uri, c.full, c.callbackAction, restoredItem)
        uris == dependentUris(config, restoredItem)
    IN  /\ c.pc = "coldRead"
        /\ calls' = [calls EXCEPT ![i] =
                        [c EXCEPT !.pc = IF ColdMiss(config, c.full, restoredItem) THEN "fetching"
                                         ELSE IF Len(uris) > 0 THEN "depReads" ELSE "done",
                                  !.trace = c.trace \o steps,
                                  !.uris = IF ColdMiss(config, c.full, restoredItem)
                                           THEN <<>> ELSE uris,
                                  !.results = IF ColdMiss(config, c.full, restoredItem)
                                              THEN <<>> ELSE [k \in 1..Len(uris) |-> Pending]]]
        /\ index' = ReduceIndex(index, steps)
        /\ loading' = ReduceLoading(loading, steps)
        /\ UNCHANGED <<cold, config, eval>>

\* variant: a rejected read falls back to the network
ColdRejects_fallsBack(i) ==
    LET c == calls[i]
        steps == <<RejectedEv(c.uri)>> \o ColdMissSteps(c.uri)
    IN  /\ c.pc = "coldRead"
        /\ calls' = [calls EXCEPT ![i] =
                        [c EXCEPT !.pc = "fetching", !.trace = c.trace \o steps]]
        /\ loading' = ReduceLoading(loading, steps)
        /\ UNCHANGED <<index, cold, config, eval>>

\* the cold-store read of uri rejects: no handler is attached
ColdRejects(i) ==
    LET c == calls[i]
    IN  /\ c.pc = "coldRead"
        /\ calls' = [calls EXCEPT ![i] =
                        [c EXCEPT !.pc = "rejected", !.trace = c.trace \o <<RejectedEv(c.uri)>>]]
        /\ UNCHANGED <<index, cold, loading, config, eval>>

\* one of the dependent reads resolves
DependentResolves(i, k) ==
    LET c == calls[i]
    IN  /\ c.pc = "depReads"
        /\ k \in 1..Len(c.results)
        /\ c.results[k] = Pending
        /\ calls' = [calls EXCEPT ![i] =
                        [c EXCEPT !.results[k] = Settled(cold[c.uris[k]])]]
        /\ UNCHANGED <<index, cold, loading, config, eval>>

\* one of the dependent reads rejects: Promise.all rejects, its .then never runs
DependentRejects(i, k) ==
    LET c == calls[i]
    IN  /\ c.pc = "depReads"
        /\ k \in 1..Len(c.results)
        /\ c.results[k] = Pending
        /\ calls' = [calls EXCEPT ![i] =
                        [c EXCEPT !.pc = "rejected",
                                  !.trace = c.trace \o <<RejectedEv(c.uris[k])>>]]
        /\ UNCHANGED <<index, cold, loading, config, eval>>

\* variant: the dependents are restored as soon as one of the reads has resolved
DependentsRestored_early(i) ==
    LET c == calls[i]
        steps == DependentsRestoredSteps(c.results)
    IN  /\ c.pc = "depReads"
        /\ \E k \in 1..Len(c.results) : c.results[k] # Pending
        /\ calls' = [calls EXCEPT ![i] = [c EXCEPT !.pc = "done", !.trace = c.trace \o steps]]
        /\ index' = ReduceIndex(index, steps)
        /\ loading' = ReduceLoading(loading, steps)
        /\ UNCHANGED <<cold, config, eval>>

\* every dependent read has resolved: the .then callback of Promise.all runs
DependentsRestored(i) ==
    LET c == calls[i]
        steps == DependentsRestoredSteps(c.results)
    IN  /\ c.pc = "depReads"
        /\ \A k \in 1..Len(c.results) : c.results[k] # Pending
        /\ calls' = [calls EXCEPT ![i] = [c EXCEPT !.pc = "done", !.trace = c.trace \o steps]]
        /\ index' = ReduceIndex(index, steps)
        /\ loading' = ReduceLoading(loading, steps)
        /\ UNCHANGED <<cold, config, eval>>

\* the fetch delegate's result arrives in the index
FetchLands(i) ==
    LET c == calls[i]
    IN  /\ c.pc = "fetching"
        /\ calls' = [calls EXCEPT ![i] = [c EXCEPT !.pc = "done"]]
        /\ index' = [index EXCEPT ![c.uri] = FetchedEntity(c.uri)]
        /\ loading' = [loading EXCEPT ![c.uri] = FALSE]
        /\ UNCHANGED <<cold, config, eval>>

Next ==
    \/ \E i \in DOMAIN calls, uri \in RequestUris, forceRefetch \in BOOLEAN, full \in BOOLEAN,
          callbackAction \in CallbackActions :
            EnsureLoaded(i, uri, forceRefetch, full, callbackAction)
    \/ \E i \in DOMAIN calls : ColdResolves(i)
    \/ \E i \in DOMAIN calls : ColdRejects(i)
    \/ \E i \in DOMAIN calls : \E k \in DOMAIN calls[i].results : DependentResolves(i, k)
    \/ \E i \in DOMAIN calls : \E k \in DOMAIN calls[i].results : DependentRejects(i, k)
    \/ \E i \in DOMAIN calls : DependentsRestored(i)

Spec == Init /\ [][Next]_vars

\* the same steps together with the fetch delegate's result, for requests that differ in
\* forceRefetch and callbackAction only
NextConcurrent ==
    \/ \E i \in DOMAIN calls, uri \in RequestUris, forceRefetch \in BOOLEAN,
          callbackAction \in {NoCallback, Callback([name |-> "play"])} :
            EnsureLoaded(i, uri, forceRefetch, FALSE, callbackAction)
    \/ \E i \in DOMAIN calls : ColdResolves(i)
    \/ \E i \in DOMAIN calls : ColdRejects(i)
    \/ \E i \in DOMAIN calls : \E k \in DOMAIN calls[i].results : DependentResolves(i, k)
    \/ \E i \in DOMAIN calls : \E k \in DOMAIN calls[i].results : DependentRejects(i, k)
    \/ \E i \in DOMAIN calls : DependentsRestored(i)
    \/ \E i \in DOMAIN calls : FetchLands(i)

SpecConcurrent == InitConcurrent /\ [][NextConcurrent]_vars

(***************************************************************************)
(* Direct calls of the two exported pure functions.                        *)
(***************************************************************************)
EvalItems ==
    {Absent} \cup
    {MkEntity("x", nm, ar, tr) :
        nm \in {Undefined, Str("Foo"), Arr(<<"b">>)},
        ar \in {Undefined, Null, Str("a"), Arr(<<"a", "b">>)},
        tr \in {Undefined, Arr(<<>>), Arr(<<"b">>)}}

InitEval ==
    /\ index = [u \in URIs |-> Absent]
    /\ cold = [u \in URIs |-> Absent]
    /\ loading = [u \in URIs |-> FALSE]
    /\ config = [dependents |-> <<>>, fullDependents |-> <<>>, type |-> ""]
    /\ calls = <<>>
    /\ eval \in [op : {"none"}, item : EvalItems,
                 dependents : SeqsUpTo(DependentNames, MaxDeps),
                 fullDependents : SeqsUpTo(DependentNames, MaxDeps),
                 full : BOOLEAN, missing : {<<>>}, uris : {<<>>}]

\* getMissingDependents({ item, dependents, fullDependents, full })
CallGetMissingDependents ==
    /\ eval.op = "none"
    /\ eval' = [eval EXCEPT !.op = "getMissingDependents",
                            !.missing = getMissingDependents(eval.item, eval.dependents,
                                                             eval.fullDependents, eval.full)]
    /\ UNCHANGED <<index, cold, loading, config, calls>>

\* getDependentUris({ item, dependents, fullDependents })
CallGetDependentUris ==
    /\ eval.op = "none"
    /\ eval' = [eval EXCEPT !.op = "getDependentUris",
                            !.uris = getDependentUris(eval.item, eval.dependents,
                                                      eval.fullDependents)]
    /\ UNCHANGED <<index, cold, loading, config, calls>>

NextEval == CallGetMissingDependents \/ CallGetDependentUris

SpecEval == InitEval /\ [][NextEval]_vars

(***************************************************************************)
(* Vocabulary of the properties.                                           *)
(***************************************************************************)
\* the events of a trace with the given operation, in order
Of(trace, op) == SelectSeq(trace, LAMBDA e : e.op = op)

Count(trace, op) == Len(Of(trace, op))

Invoked(c) == c.pc # "idle"

\* the places of a trace that hold the given event
Positions(trace, ev) == {k \in DOMAIN trace : trace[k] = ev}

\* the places of a trace that hold an event of the given operation
PositionsOf(trace, op) == {k \in DOMAIN trace : trace[k].op = op}

\* every place of the first set lies before every place of the second
AllBefore(first, second) == \A k \in first, l \in second : k < l

\* the value of the attribute is neither undefined nor null
Defined(item, name) ==
    /\ name \in DOMAIN item.attrs
    /\ item.attrs[name] # Undefined
    /\ item.attrs[name] # Null

Range(seq) == {seq[k] : k \in DOMAIN seq}

\* the names a request requires of an entity
EffectiveDependents(cfg, full) ==
    Range(cfg.dependents) \cup (IF full THEN Range(cfg.fullDependents) ELSE {})

\* the entity is complete with respect to the request
Complete(item, cfg, full) ==
    item.present /\ \A name \in EffectiveDependents(cfg, full) : Defined(item, name)

\* sub is seq with the elements failing Keep(_) left out
RECURSIVE Kept(_, _)
Kept(seq, keep) ==
    IF seq = <<>> THEN <<>>
    ELSE LET rest == Kept(SubSeq(seq, 1, Len(seq) - 1), keep)
         IN  IF seq[Len(seq)] \in keep THEN Append(rest, seq[Len(seq)]) ELSE rest

\* the URIs an entity holds under the *_uri* names of a name sequence
RECURSIVE UrisUnder(_, _)
UrisUnder(item, names) ==
    IF names = <<>> THEN <<>>
    ELSE LET last == names[Len(names)]
             front == UrisUnder(item, SubSeq(names, 1, Len(names) - 1))
         IN  IF /\ last \in {N_artists_uris, N_tracks_uris}
                /\ last \in DOMAIN item.attrs
                /\ item.attrs[last].kind = "array"
             THEN front \o item.attrs[last].elems
             ELSE front

\* the dependent names of the call site, in the order the code walks them
AllDependents == config.dependents \o config.fullDependents

\* the dependents of an entity that the cold store holds, in uri order
RECURSIVE FoundInColdStore(_)
FoundInColdStore(uris) ==
    IF uris = <<>> THEN <<>>
    ELSE (IF cold[Head(uris)].present THEN <<cold[Head(uris)]>> ELSE <<>>)
         \o FoundInColdStore(Tail(uris))

(***************************************************************************)
(* Properties of one ensureLoaded invocation, checked under Spec.          *)
(***************************************************************************)
\* C1 as stated: with forceRefetch true the invocation dispatches setLoading(uri, true),
\* invokes fetch() exactly once and reads neither the index nor the cold store.
C1_NoReadAtAll ==
    \A i \in DOMAIN calls :
        (Invoked(calls[i]) /\ calls[i].forceRefetch) =>
            /\ Of(calls[i].trace, "setLoading") = <<setLoading(calls[i].uri, TRUE)>>
            /\ Count(calls[i].trace, "fetch") = 1
            /\ Count(calls[i].trace, "getState") = 0
            /\ Count(calls[i].trace, "getItem") = 0

\* C1 amended: with forceRefetch true the invocation reads the index once, before the
\* forceRefetch test, and whatever the index and the cold store hold it then dispatches
\* setLoading(uri, true), invokes fetch() exactly once, returns, and never reads the
\* cold store.
C1_ForceRefetch ==
    \A i \in DOMAIN calls :
        (Invoked(calls[i]) /\ calls[i].forceRefetch) =>
            calls[i].trace = <<GetStateEv(calls[i].uri), setLoading(calls[i].uri, TRUE),
                               FetchEv, ReturnEv>>

\* a forced refetch of an entity that the index holds complete and the cold store holds too
C1_Witness ==
    \E i \in DOMAIN calls :
        /\ calls[i].forceRefetch
        /\ Complete(calls[i].item, config, calls[i].full)
        /\ Complete(cold[calls[i].uri], config, calls[i].full)
        /\ calls[i].callbackAction.present
        /\ Count(calls[i].trace, "fetch") = 1

\* C2: without forceRefetch, for an index entity complete for the request, the invocation
\* dispatches stopLoading(uri), dispatches loadItems(type, uris) exactly when the entity
\* has dependent URIs (with those URIs in order), and neither reads the cold store, nor
\* invokes fetch(), nor dispatches setLoading or restoreItemsFromColdStore.
C2_IndexSatisfied ==
    \A i \in DOMAIN calls :
        (/\ Invoked(calls[i])
         /\ ~calls[i].forceRefetch
         /\ Complete(calls[i].item, config, calls[i].full)) =>
            LET uris == UrisUnder(calls[i].item, AllDependents)
            IN  /\ Of(calls[i].trace, "stopLoading") = <<stopLoading(calls[i].uri)>>
                /\ Of(calls[i].trace, "loadItems") =
                       (IF uris # <<>> THEN <<loadItems(config.type, uris)>> ELSE <<>>)
                /\ Count(calls[i].trace, "getItem") = 0
                /\ Count(calls[i].trace, "fetch") = 0
                /\ Count(calls[i].trace, "setLoading") = 0
                /\ Count(calls[i].trace, "restoreItemsFromColdStore") = 0

\* scenario A: the index entity is served, its two dependents are requested in order,
\* while the cold store holds the entity as well
C2_Witness ==
    \E i \in DOMAIN calls :
        /\ ~calls[i].forceRefetch
        /\ calls[i].item.present
        /\ cold[calls[i].uri].present
        /\ Of(calls[i].trace, "stopLoading") = <<stopLoading("x")>>
        /\ Of(calls[i].trace, "loadItems") = <<loadItems("albums", <<"a", "b">>)>>

\* C3: without forceRefetch, with the entity absent from the index and the cold-store read
\* of uri resolved to absent, the invocation has dispatched setLoading(uri, true), invoked
\* fetch() exactly once and dispatched neither a restoration nor stopLoading.
C3_ColdStoreMiss ==
    \A i \in DOMAIN calls :
        (/\ ~calls[i].forceRefetch
         /\ ~calls[i].item.present
         /\ Count(calls[i].trace, "resolved") = 1
         /\ ~cold[calls[i].uri].present) =>
            /\ Of(calls[i].trace, "setLoading") = <<setLoading(calls[i].uri, TRUE)>>
            /\ Count(calls[i].trace, "fetch") = 1
            /\ Count(calls[i].trace, "restoreItemsFromColdStore") = 0
            /\ Count(calls[i].trace, "stopLoading") = 0

\* scenario C: index and cold store hold nothing for the uri and the read has resolved
C3_Witness ==
    \E i \in DOMAIN calls :
        /\ Invoked(calls[i])
        /\ ~calls[i].forceRefetch
        /\ ~calls[i].item.present
        /\ ~cold[calls[i].uri].present
        /\ calls[i].callbackAction.present
        /\ Count(calls[i].trace, "resolved") = 1
        /\ Count(calls[i].trace, "fetch") = 1

\* C4: without forceRefetch, with the entity absent from the index and complete in the
\* cold store, the invocation never invokes fetch() and never dispatches setLoading; once
\* the read has resolved its first restoration carries exactly the cold-store entity; and
\* when the invocation is done and the entity's dependent URIs are all in the cold store,
\* a second restoration carrying those dependents has followed.
C4_ColdStoreSatisfied ==
    \A i \in DOMAIN calls :
        (/\ Invoked(calls[i])
         /\ ~calls[i].forceRefetch
         /\ ~calls[i].item.present
         /\ Complete(cold[calls[i].uri], config, calls[i].full)) =>
            LET restored == cold[calls[i].uri]
                uris == UrisUnder(restored, AllDependents)
                restorations == Of(calls[i].trace, "restoreItemsFromColdStore")
            IN  /\ Count(calls[i].trace, "fetch") = 0
                /\ Count(calls[i].trace, "setLoading") = 0
                /\ Count(calls[i].trace, "resolved") = 1 =>
                       /\ Len(restorations) >= 1
                       /\ restorations[1] = restoreItemsFromColdStore(<<restored>>)
                /\ (/\ calls[i].pc = "done"
                    /\ uris # <<>>
                    /\ \A k \in DOMAIN uris : cold[uris[k]].present) =>
                       restorations = <<restoreItemsFromColdStore(<<restored>>),
                                        restoreItemsFromColdStore(FoundInColdStore(uris))>>

\* scenario B: the entity and its two dependents come from the cold store
C4_Witness ==
    \E i \in DOMAIN calls :
        /\ calls[i].pc = "done"
        /\ ~calls[i].forceRefetch
        /\ ~calls[i].item.present
        /\ Count(calls[i].trace, "fetch") = 0
        /\ Len(Of(calls[i].trace, "restoreItemsFromColdStore")) = 2
        /\ Len(Of(calls[i].trace, "restoreItemsFromColdStore")[2].items) = 2

\* C5: without forceRefetch the invocation is served from the index exactly when the
\* index entity has a defined, non-null value for every name of the effective dependent
\* set (dependents, plus fullDependents when full); otherwise the cold store is read, and
\* once that read has resolved the entity is restored exactly when the cold-store entity
\* is complete in the same sense, and fetched otherwise.
C5_CompleteIffEffectiveDependents ==
    \A i \in DOMAIN calls :
        (Invoked(calls[i]) /\ ~calls[i].forceRefetch) =>
            /\ Count(calls[i].trace, "stopLoading") = 1
                   <=> Complete(calls[i].item, config, calls[i].full)
            /\ Of(calls[i].trace, "getItem") # <<>>
                   <=> ~Complete(calls[i].item, config, calls[i].full)
            /\ Count(calls[i].trace, "resolved") = 1 =>
                   /\ Count(calls[i].trace, "restoreItemsFromColdStore") >= 1
                          <=> Complete(cold[calls[i].uri], config, calls[i].full)
                   /\ Count(calls[i].trace, "fetch") = 1
                          <=> ~Complete(cold[calls[i].uri], config, calls[i].full)

\* a full request for an index entity that has the dependents but lacks the attribute
\* named by fullDependents: the cold store is read
C5_Witness ==
    \E i \in DOMAIN calls :
        /\ ~calls[i].forceRefetch
        /\ calls[i].full
        /\ Complete(calls[i].item, config, FALSE)
        /\ config.fullDependents = <<N_tracks_uris>>
        /\ N_tracks_uris \notin DOMAIN calls[i].item.attrs
        /\ Of(calls[i].trace, "getItem") = <<GetItemEv(calls[i].uri)>>
        /\ Count(calls[i].trace, "stopLoading") = 0

\* C9: for an index entity that is complete, with callbackAction present, the invocation
\* dispatches stopLoading(uri) and exactly one callback chosen by callbackAction.name:
\* playURIs for "play", enqueueURIs for "enqueue", each with uris = [item.uri] and the
\* context of the entity; for any other name it dispatches no callback.
C9_CallbackByName ==
    \A i \in DOMAIN calls :
        (/\ Invoked(calls[i])
         /\ ~calls[i].forceRefetch
         /\ Complete(calls[i].item, config, calls[i].full)
         /\ calls[i].callbackAction.present) =>
            LET name == calls[i].callbackAction.fields.name
                plays == Of(calls[i].trace, "playURIs")
                enqueues == Of(calls[i].trace, "enqueueURIs")
                Right(ev) == /\ ev.payload.uris = <<calls[i].item.attrs[N_uri].text>>
                             /\ ev.payload.from = formatContext(calls[i].item)
            IN  /\ Of(calls[i].trace, "stopLoading") = <<stopLoading(calls[i].uri)>>
                /\ Len(plays) = (IF name = "play" THEN 1 ELSE 0)
                /\ Len(enqueues) = (IF name = "enqueue" THEN 1 ELSE 0)
                /\ \A k \in DOMAIN plays : Right(plays[k])
                /\ \A k \in DOMAIN enqueues : Right(enqueues[k])

\* scenario E with "enqueue": the entity is served from the index and enqueued, the
\* extra field of callbackAction carried along
C9_Witness ==
    \E i \in DOMAIN calls :
        /\ calls[i].item.present
        /\ Count(calls[i].trace, "stopLoading") = 1
        /\ Count(calls[i].trace, "enqueueURIs") = 1
        /\ Of(calls[i].trace, "enqueueURIs")[1].payload.play_next
        /\ Of(calls[i].trace, "enqueueURIs")[1].payload.uris = <<"x">>

\* C11: without forceRefetch the tiers are tried in order within one invocation: the
\* cold-store read is never issued before the index has been read, and fetch() is never
\* invoked before the cold-store read of uri has been issued and has resolved.
C11_TiersInOrder ==
    \A i \in DOMAIN calls :
        (Invoked(calls[i]) /\ ~calls[i].forceRefetch) =>
            LET t == calls[i].trace
                uri == calls[i].uri
            IN  /\ \A g \in PositionsOf(t, "getItem") :
                       \E s \in Positions(t, GetStateEv(uri)) : s < g
                /\ \A f \in PositionsOf(t, "fetch") :
                       \E g \in Positions(t, GetItemEv(uri)), r \in Positions(t, ResolvedEv(uri)) :
                           g < r /\ r < f

\* an index entity that lacks a dependent, a cold store that has nothing: the index is
\* read, then the cold store, and fetch() follows the resolution
C11_Witness ==
    \E i \in DOMAIN calls :
        /\ ~calls[i].forceRefetch
        /\ calls[i].item.present
        /\ calls[i].trace = <<GetStateEv(calls[i].uri), GetItemEv(calls[i].uri), ReturnEv,
                              ResolvedEv(calls[i].uri), setLoading(calls[i].uri, TRUE), FetchEv>>

\* the three ways an invocation ends
Fetched(c) == Count(c.trace, "fetch") > 0
Stopped(c) == Count(c.trace, "stopLoading") > 0
Restored(c) == Count(c.trace, "restoreItemsFromColdStore") > 0

\* C12: an invocation ends in exactly one of three ways and never in two: setLoading(uri,
\* true) followed by fetch(), or stopLoading(uri), or the restoration of the one cold-store
\* entity.  While the cold-store read of uri is issued and not yet resolved none has
\* happened; an invocation that is past that read, or never issued it, has exactly one.
C12_ExactlyOneOutcome ==
    \A i \in DOMAIN calls :
        Invoked(calls[i]) =>
            LET c == calls[i]
                t == c.trace
            IN  /\ ~(Fetched(c) /\ Stopped(c))
                /\ ~(Fetched(c) /\ Restored(c))
                /\ ~(Stopped(c) /\ Restored(c))
                /\ Fetched(c) =>
                       /\ Count(t, "fetch") = 1
                       /\ \E k \in DOMAIN t :
                              k > 1 /\ t[k] = FetchEv /\ t[k - 1] = setLoading(c.uri, TRUE)
                /\ Stopped(c) => Of(t, "stopLoading") = <<stopLoading(c.uri)>>
                /\ Restored(c) =>
                       Of(t, "restoreItemsFromColdStore")[1] =
                           restoreItemsFromColdStore(<<cold[c.uri]>>)
                /\ c.pc \in {"fetching", "depReads", "done"} =>
                       Fetched(c) \/ Stopped(c) \/ Restored(c)
                /\ c.pc = "coldRead" =>
                       /\ ~Fetched(c) /\ ~Stopped(c) /\ ~Restored(c)
                       /\ Of(t, "getItem") = <<GetItemEv(c.uri)>>
                       /\ Count(t, "resolved") = 0

\* an index entity that lacks a dependent and a cold-store entity that has it: the
\* invocation ends with the restoration alone
C12_Witness ==
    \E i \in DOMAIN calls :
        /\ calls[i].pc = "done"
        /\ calls[i].item.present
        /\ Restored(calls[i])
        /\ ~Fetched(calls[i])
        /\ ~Stopped(calls[i])

\* C13: in the cold-store-satisfied branch the reads of all dependent URIs have been
\* issued, in URI order, by the time any of them is awaited; the dependents are restored
\* at most once per invocation, only when every one of the reads has resolved, and with
\* the results of all of them: while a read is outstanding the only restoration is that of
\* the entity itself.
C13_DependentsJoined ==
    \A i \in DOMAIN calls :
        (Invoked(calls[i]) /\ ~calls[i].forceRefetch) =>
            LET c == calls[i]
                restorations == Of(c.trace, "restoreItemsFromColdStore")
            IN  /\ Len(restorations) <= 2
                /\ c.results # <<>> =>
                       /\ Len(c.results) = Len(c.uris)
                       /\ Of(c.trace, "getItem") = <<GetItemEv(c.uri)>> \o GetItemEvs(c.uris)
                       /\ Len(restorations) >= 1
                /\ (\E k \in DOMAIN c.results : c.results[k] = Pending) =>
                       restorations = <<restoreItemsFromColdStore(<<cold[c.uri]>>)>>
                /\ Len(restorations) = 2 =>
                       /\ c.results # <<>>
                       /\ \A k \in DOMAIN c.results : c.results[k] # Pending
                       /\ restorations[2] =
                              restoreItemsFromColdStore(compact(ItemsOf(c.results)))

\* two dependent reads issued, the second resolved and the first outstanding: nothing
\* but the entity itself has been restored
C13_Witness ==
    \E i \in DOMAIN calls :
        /\ calls[i].pc = "depReads"
        /\ Len(calls[i].results) = 2
        /\ calls[i].results[1] = Pending
        /\ calls[i].results[2] # Pending
        /\ calls[i].results[2].item.present
        /\ Count(calls[i].trace, "getItem") = 3
        /\ Count(calls[i].trace, "restoreItemsFromColdStore") = 1

\* C14: when the dependents have been restored, the batch holds exactly the entities the
\* cold store has for the dependent URIs, in URI order: a dependent the cold store lacks
\* is left out, and the invocation neither invokes fetch() nor dispatches setLoading or
\* loadItems for it.
C14_MissingDependentsLeftOut ==
    \A i \in DOMAIN calls :
        (/\ calls[i].pc = "done"
         /\ ~calls[i].forceRefetch
         /\ Len(Of(calls[i].trace, "restoreItemsFromColdStore")) = 2) =>
            LET c == calls[i]
                uris == UrisUnder(cold[c.uri], AllDependents)
                batch == Of(c.trace, "restoreItemsFromColdStore")[2].items
            IN  /\ batch = FoundInColdStore(uris)
                /\ \A k \in DOMAIN batch : batch[k].present
                /\ Count(c.trace, "fetch") = 0
                /\ Count(c.trace, "setLoading") = 0
                /\ Count(c.trace, "loadItems") = 0

\* scenario D: of the two dependents only the first is in the cold store, and the batch
\* holds that one alone
C14_Witness ==
    \E i \in DOMAIN calls :
        /\ calls[i].pc = "done"
        /\ calls[i].uris = <<"a", "b">>
        /\ cold["a"].present
        /\ ~cold["b"].present
        /\ Len(Of(calls[i].trace, "restoreItemsFromColdStore")) = 2
        /\ Of(calls[i].trace, "restoreItemsFromColdStore")[2].items = <<cold["a"]>>
        /\ Count(calls[i].trace, "fetch") = 0

\* C18: a rejection is the last thing an invocation does.  After the rejection of the read
\* of uri the invocation has dispatched nothing and has not invoked fetch(); after the
\* rejection of a dependent read the restoration of the entity itself and its callback
\* stand and the dependents are not restored.  Neither callback can run afterwards.
C18_RejectionUnhandled ==
    \A i \in DOMAIN calls :
        Count(calls[i].trace, "rejected") > 0 =>
            LET c == calls[i]
                t == c.trace
                callbacks == Count(t, "playURIs") + Count(t, "enqueueURIs")
            IN  /\ c.pc = "rejected"
                /\ Count(t, "rejected") = 1
                /\ t[Len(t)].op = "rejected"
                /\ Count(t, "fetch") = 0
                /\ Count(t, "setLoading") = 0
                /\ t[Len(t)] = RejectedEv(c.uri) =>
                       t = <<GetStateEv(c.uri), GetItemEv(c.uri), ReturnEv, RejectedEv(c.uri)>>
                /\ t[Len(t)] # RejectedEv(c.uri) =>
                       /\ t[Len(t)].uri \in Range(UrisUnder(cold[c.uri], AllDependents))
                       /\ Of(t, "restoreItemsFromColdStore") =
                              <<restoreItemsFromColdStore(<<cold[c.uri]>>)>>
                       /\ callbacks = (IF /\ c.callbackAction.present
                                          /\ c.callbackAction.fields.name \in {"play", "enqueue"}
                                       THEN 1 ELSE 0)
                /\ ~ENABLED ColdResolves(i)
                /\ ~ENABLED DependentsRestored(i)

\* the read of the second dependent rejects after that of the first has resolved: the
\* entity's restoration and the play callback stand, the dependents are not restored
C18_Witness ==
    \E i \in DOMAIN calls :
        /\ calls[i].pc = "rejected"
        /\ calls[i].trace[Len(calls[i].trace)] = RejectedEv("b")
        /\ calls[i].results[1] # Pending
        /\ Count(calls[i].trace, "restoreItemsFromColdStore") = 1
        /\ Count(calls[i].trace, "playURIs") = 1

\* C19: in the cold-store-satisfied branch the steps come in this order: the restoration
\* of the entity itself, then the callback when callbackAction names one, then the reads
\* of the dependents, then the restoration of the dependents.  The callback is the step
\* right after the entity's restoration, so it is there while dependent reads are
\* outstanding.
C19_ColdSatisfiedOrder ==
    \A i \in DOMAIN calls :
        (Invoked(calls[i]) /\ ~calls[i].forceRefetch /\ Restored(calls[i])) =>
            LET c == calls[i]
                t == c.trace
                restorations == PositionsOf(t, "restoreItemsFromColdStore")
                own == CHOOSE k \in restorations : \A l \in restorations : k <= l
                bulk == restorations \ {own}
                callbacks == PositionsOf(t, "playURIs") \cup PositionsOf(t, "enqueueURIs")
                reads == {k \in PositionsOf(t, "getItem") : k > own}
            IN  /\ t[own - 1] = ResolvedEv(c.uri)
                /\ t[own] = restoreItemsFromColdStore(<<cold[c.uri]>>)
                /\ callbacks = (IF /\ c.callbackAction.present
                                   /\ c.callbackAction.fields.name \in {"play", "enqueue"}
                                THEN {own + 1} ELSE {})
                /\ AllBefore(callbacks, reads)
                /\ AllBefore(reads, bulk)
                /\ AllBefore(callbacks, bulk)
                /\ Len(c.uris) = Cardinality(reads)
                /\ bulk # {} => reads # {}

\* the entity is restored and enqueued while the reads of its two dependents are both
\* outstanding
C19_Witness ==
    \E i \in DOMAIN calls :
        /\ calls[i].pc = "depReads"
        /\ calls[i].results = <<Pending, Pending>>
        /\ Count(calls[i].trace, "restoreItemsFromColdStore") = 1
        /\ Count(calls[i].trace, "enqueueURIs") = 1
        /\ Count(calls[i].trace, "getItem") = 3

\* C22: an invocation that restored its entity from the cold store issues one read per
\* dependent URI of that entity, and once it is done it has dispatched a second
\* restoration exactly when the entity has a dependent URI: with an empty batch when the
\* cold store has none of the dependents, and with no second restoration and no
\* dependent read when the entity has no dependent URI.
C22_BulkRestorationIffDependentUris ==
    \A i \in DOMAIN calls :
        (Invoked(calls[i]) /\ ~calls[i].forceRefetch /\ Restored(calls[i])) =>
            LET c == calls[i]
                uris == UrisUnder(cold[c.uri], AllDependents)
                restorations == Of(c.trace, "restoreItemsFromColdStore")
            IN  /\ Of(c.trace, "getItem") = <<GetItemEv(c.uri)>> \o GetItemEvs(uris)
                /\ uris = <<>> => c.pc = "done" /\ Len(restorations) = 1
                /\ c.pc = "done" => (Len(restorations) = 2 <=> uris # <<>>)
                /\ (/\ c.pc = "done"
                    /\ uris # <<>>
                    /\ \A k \in DOMAIN uris : ~cold[uris[k]].present) =>
                       restorations[2] = restoreItemsFromColdStore(<<>>)

\* the entity has two dependent URIs and the cold store has neither: both reads were
\* issued and the second restoration carries an empty batch
C22_Witness ==
    \E i \in DOMAIN calls :
        /\ calls[i].pc = "done"
        /\ calls[i].uris = <<"a", "b">>
        /\ ~cold["a"].present /\ ~cold["b"].present
        /\ Count(calls[i].trace, "getItem") = 3
        /\ Len(Of(calls[i].trace, "restoreItemsFromColdStore")) = 2
        /\ Of(calls[i].trace, "restoreItemsFromColdStore")[2].items = <<>>

\* C23: an invocation dispatches at most one enqueueURIs or playURIs, and only when it
\* was satisfied from the index or from the cold store: an invocation that has invoked
\* fetch(), forced or after a cold-store miss, has dispatched neither, whatever its
\* callbackAction.
C23_NoCallbackWithFetch ==
    \A i \in DOMAIN calls :
        Invoked(calls[i]) =>
            LET c == calls[i]
                callbacks == Count(c.trace, "playURIs") + Count(c.trace, "enqueueURIs")
            IN  /\ callbacks <= 1
                /\ Fetched(c) => callbacks = 0
                /\ callbacks = 1 =>
                       /\ Stopped(c) \/ Restored(c)
                       /\ c.callbackAction.present
                       /\ c.callbackAction.fields.name \in {"play", "enqueue"}

\* a play request for an entity that the cold store holds without a dependent: the
\* entity is fetched and nothing is played
C23_Witness ==
    \E i \in DOMAIN calls :
        /\ Invoked(calls[i])
        /\ ~calls[i].forceRefetch
        /\ calls[i].callbackAction = Callback([name |-> "play"])
        /\ cold[calls[i].uri].present
        /\ Count(calls[i].trace, "resolved") = 1
        /\ Fetched(calls[i])
        /\ Count(calls[i].trace, "playURIs") = 0

\* C24: the dependent URIs an invocation loads or reads are those held under the names
\* of dependents and of fullDependents alike, whether full is set or not: an invocation
\* that the index satisfied has dispatched loadItems with the URIs of both name sequences
\* (and no loadItems when there are none), and an invocation that restored its entity has
\* issued a read for each URI of both name sequences of the cold-store entity.
C24_DependentUrisRegardlessOfFull ==
    \A i \in DOMAIN calls :
        (Invoked(calls[i]) /\ ~calls[i].forceRefetch) =>
            LET c == calls[i]
                ofIndex == UrisUnder(c.item, config.dependents)
                           \o UrisUnder(c.item, config.fullDependents)
                ofCold == UrisUnder(cold[c.uri], config.dependents)
                          \o UrisUnder(cold[c.uri], config.fullDependents)
            IN  /\ Stopped(c) =>
                       Of(c.trace, "loadItems") =
                           (IF ofIndex = <<>> THEN <<>>
                            ELSE <<loadItems(config.type, ofIndex)>>)
                /\ Restored(c) =>
                       Of(c.trace, "getItem") = <<GetItemEv(c.uri)>> \o GetItemEvs(ofCold)

\* a request with full = false whose index entity is complete by dependents alone: the
\* URI under the name of fullDependents is loaded with that under the name of dependents
C24_Witness ==
    \E i \in DOMAIN calls :
        /\ Invoked(calls[i])
        /\ ~calls[i].forceRefetch
        /\ ~calls[i].full
        /\ config.dependents = <<N_artists_uris>>
        /\ config.fullDependents = <<N_tracks_uris>>
        /\ UrisUnder(calls[i].item, config.fullDependents) = <<"b">>
        /\ Of(calls[i].trace, "loadItems") = <<loadItems(config.type, <<"a", "b">>)>>

(***************************************************************************)
(* Properties of several invocations, checked under SpecConcurrent.        *)
(***************************************************************************)
\* C10: two invocations with the same request that both find the same complete entity in
\* the index take the same steps: each dispatches stopLoading, loadItems when the entity
\* has dependent URIs and the callback when present; the later one is not shortened.
C10_SameDispatchesTwice ==
    \A i, j \in DOMAIN calls :
        (/\ i < j
         /\ Invoked(calls[i]) /\ Invoked(calls[j])
         /\ ~calls[i].forceRefetch /\ ~calls[j].forceRefetch
         /\ calls[i].uri = calls[j].uri
         /\ calls[i].full = calls[j].full
         /\ calls[i].callbackAction = calls[j].callbackAction
         /\ calls[i].item = calls[j].item
         /\ Complete(calls[i].item, config, calls[i].full)) =>
            /\ calls[j].trace = calls[i].trace
            /\ Count(calls[j].trace, "stopLoading") = 1
            /\ Count(calls[j].trace, "loadItems") =
                   (IF UrisUnder(calls[j].item, AllDependents) # <<>> THEN 1 ELSE 0)
            /\ Count(calls[j].trace, "playURIs") + Count(calls[j].trace, "enqueueURIs") =
                   (IF calls[j].callbackAction.present THEN 1 ELSE 0)

\* the second of two successive identical requests repeats stopLoading, loadItems and
\* the play callback of the first
C10_Witness ==
    /\ calls[1].pc = "done" /\ calls[2].pc = "done"
    /\ calls[1].item.present
    /\ calls[2].trace = calls[1].trace
    /\ Count(calls[2].trace, "stopLoading") = 1
    /\ Count(calls[2].trace, "loadItems") = 1
    /\ Count(calls[2].trace, "playURIs") = 1

\* the operations that go through dispatch
DispatchOps ==
    {"setLoading", "stopLoading", "loadItems", "restoreItemsFromColdStore", "enqueueURIs",
     "playURIs"}

\* C15: an invocation without forceRefetch that the index does not satisfy issues the
\* cold-store read and returns to its caller at once: the return is its third step, and
\* the resolution of the read, every dispatch and fetch() come strictly after it.
C15_ReturnsBeforeResolution ==
    \A i \in DOMAIN calls :
        (/\ Invoked(calls[i])
         /\ ~calls[i].forceRefetch
         /\ ~Complete(calls[i].item, config, calls[i].full)) =>
            LET t == calls[i].trace
                later == {k \in DOMAIN t :
                             t[k].op \in DispatchOps \cup {"fetch", "resolved", "rejected"}}
            IN  /\ Len(t) >= 3
                /\ SubSeq(t, 1, 3) = <<GetStateEv(calls[i].uri), GetItemEv(calls[i].uri), ReturnEv>>
                /\ Count(t, "return") = 1
                /\ AllBefore(Positions(t, ReturnEv), later)
                /\ calls[i].pc # "coldRead" => later # {}

\* the first invocation has returned with its read outstanding, and in between the caller
\* has run a forced invocation whose fetch has delivered
C15_Witness ==
    /\ calls[1].pc = "coldRead"
    /\ calls[1].trace = <<GetStateEv(calls[1].uri), GetItemEv(calls[1].uri), ReturnEv>>
    /\ calls[2].pc = "done"
    /\ calls[2].forceRefetch
    /\ Count(calls[2].trace, "fetch") = 1
    /\ index[calls[1].uri].present

\* C16: of two invocations for the same uri, neither forced, that both found the index
\* empty and whose cold-store reads have both resolved with nothing, each has dispatched
\* setLoading(uri, true) and each has invoked fetch(): fetch() is invoked twice, and the
\* loading flag raised by the one does not hold back the other.
C16_NoDeduplication ==
    \A i, j \in DOMAIN calls :
        (/\ i < j
         /\ Invoked(calls[i]) /\ Invoked(calls[j])
         /\ ~calls[i].forceRefetch /\ ~calls[j].forceRefetch
         /\ calls[i].uri = calls[j].uri
         /\ ~calls[i].item.present /\ ~calls[j].item.present
         /\ ~cold[calls[i].uri].present
         /\ Count(calls[i].trace, "resolved") = 1
         /\ Count(calls[j].trace, "resolved") = 1) =>
            /\ Of(calls[i].trace, "setLoading") = <<setLoading(calls[i].uri, TRUE)>>
            /\ Of(calls[j].trace, "setLoading") = <<setLoading(calls[j].uri, TRUE)>>
            /\ Count(calls[i].trace, "fetch") + Count(calls[j].trace, "fetch") = 2
            /\ Count(calls[i].trace, "fetch") = 1

\* two fetches of the same uri are in flight at once, the loading flag raised
C16_Witness ==
    /\ calls[1].pc = "fetching" /\ calls[2].pc = "fetching"
    /\ calls[1].uri = calls[2].uri
    /\ ~calls[1].forceRefetch /\ ~calls[2].forceRefetch
    /\ ~calls[1].item.present /\ ~calls[2].item.present
    /\ Count(calls[1].trace, "resolved") = 1 /\ Count(calls[2].trace, "resolved") = 1
    /\ Count(calls[1].trace, "fetch") = 1 /\ Count(calls[2].trace, "fetch") = 1
    /\ loading[calls[1].uri]

\* what invocation i does in the step at hand
StepsTaken(i) == SubSeq(calls'[i].trace, Len(calls[i].trace) + 1, Len(calls'[i].trace))

\* C17: no step changes the cold store; no step takes an entity out of the index; and
\* the index changes only in a step that dispatches restoreItemsFromColdStore, by the
\* effect of that dispatch, or in the step of the fetch delegate.
C17_StoresLeftAlone ==
    [][/\ cold' = cold
       /\ \A u \in URIs : index[u].present => index'[u].present
       /\ index' # index =>
              \E i \in DOMAIN calls :
                  \/ calls[i].pc = "fetching" /\ calls'[i].pc = "done"
                  \/ /\ Count(StepsTaken(i), "restoreItemsFromColdStore") > 0
                     /\ index' = ReduceIndex(index, Of(StepsTaken(i), "restoreItemsFromColdStore"))
                     /\ \A j \in DOMAIN calls \ {i} : calls'[j] = calls[j]]_vars

\* the index has got the entity through the dispatched restoration, the cold store
\* still holding it
C17_Witness ==
    \E i \in DOMAIN calls :
        /\ Invoked(calls[i])
        /\ ~calls[i].item.present
        /\ Restored(calls[i])
        /\ cold[calls[i].uri].present
        /\ index[calls[i].uri] = cold[calls[i].uri]
        /\ \A j \in DOMAIN calls : ~Fetched(calls[j])

\* C20: an invocation reads the index once, as its first step, and what it does when its
\* cold-store read has resolved follows from the cold-store entity alone, whatever the
\* index has come to hold in the meantime: setLoading(uri, true) and fetch() when the
\* cold-store entity is absent or incomplete, the restoration of the cold-store entity
\* otherwise, and stopLoading in neither case.
C20_IndexReadOnce ==
    \A i \in DOMAIN calls :
        Invoked(calls[i]) =>
            LET c == calls[i]
                t == c.trace
                complete == Complete(cold[c.uri], config, c.full)
            IN  /\ PositionsOf(t, "getState") = {1}
                /\ t[1] = GetStateEv(c.uri)
                /\ (~c.forceRefetch /\ Count(t, "resolved") = 1) =>
                       /\ ~Stopped(c)
                       /\ Fetched(c) <=> ~complete
                       /\ Restored(c) <=> complete
                       /\ Fetched(c) => Of(t, "setLoading") = <<setLoading(c.uri, TRUE)>>
                       /\ Restored(c) =>
                              Of(t, "restoreItemsFromColdStore")[1] =
                                  restoreItemsFromColdStore(<<cold[c.uri]>>)

\* one invocation found the index empty and issued its cold-store read; the fetch of the
\* other then delivered the entity and lowered the loading flag; the read of the first has
\* resolved with nothing since, and it has raised the flag again and invoked fetch() with
\* the complete entity in the index
C20_Witness ==
    \E i, j \in DOMAIN calls :
        /\ i # j
        /\ calls[j].pc = "done"
        /\ Fetched(calls[j])
        /\ calls[i].pc = "fetching"
        /\ ~calls[i].forceRefetch
        /\ ~calls[i].item.present
        /\ Count(calls[i].trace, "resolved") = 1
        /\ Complete(index[calls[i].uri], config, calls[i].full)
        /\ loading[calls[i].uri]

\* C21: after every step, an invocation that has dispatched stopLoading is one that the
\* index satisfied (not forced, index entity complete, no cold-store read), an invocation
\* that restored from the cold store has dispatched neither setLoading nor stopLoading,
\* and an invocation that dispatched setLoading has not dispatched stopLoading; and the
\* steps of the cold-store-satisfied branch leave every loading flag as it was.
C21_StopLoadingFromIndexOnly ==
    [][\A i \in DOMAIN calls :
           LET c == calls'[i]
           IN  /\ Stopped(c) =>
                      /\ ~c.forceRefetch
                      /\ Complete(c.item, config, c.full)
                      /\ Count(c.trace, "getItem") = 0
               /\ Restored(c) => Count(c.trace, "setLoading") = 0 /\ ~Stopped(c)
               /\ Count(c.trace, "setLoading") > 0 => ~Stopped(c)
               /\ Count(StepsTaken(i), "restoreItemsFromColdStore") > 0 =>
                      loading' = loading]_vars

\* the first invocation is forced and its fetch is in flight; the second, issued after
\* it, has been satisfied from the cold store, and the loading flag is still raised
C21_Witness ==
    /\ calls[1].pc = "fetching"
    /\ calls[1].forceRefetch
    /\ Of(calls[1].trace, "setLoading") = <<setLoading(calls[1].uri, TRUE)>>
    /\ calls[2].pc = "done"
    /\ calls[2].uri = calls[1].uri
    /\ Restored(calls[2])
    /\ ~Fetched(calls[2])
    /\ loading[calls[1].uri]

(***************************************************************************)
(* Properties of the pure functions, checked under SpecEval.               *)
(***************************************************************************)
\* C6: for an entity that is present, getMissingDependents returns exactly the names of
\* dependents (full false; fullDependents ignored) or of dependents followed by
\* fullDependents (full true) whose value on the entity is undefined or null, in input
\* order with duplicates kept.
C6_MissingOfPresentEntity ==
    (eval.op = "getMissingDependents" /\ eval.item.present) =>
        eval.missing =
            Kept(IF eval.full THEN eval.dependents \o eval.fullDependents ELSE eval.dependents,
                 {n \in DependentNames : ~Defined(eval.item, n)})

\* a full request whose result keeps a duplicate and reports a null attribute, while a
\* defined attribute of the request is left out
C6_Witness ==
    /\ eval.op = "getMissingDependents"
    /\ eval.item.present
    /\ eval.full
    /\ Len(eval.missing) = 2
    /\ eval.missing[1] = eval.missing[2]
    /\ Get(eval.item, eval.missing[1]) = Null
    /\ eval.missing[1] \notin Range(eval.dependents)
    /\ \E n \in Range(eval.dependents) : Defined(eval.item, n)

\* C7: for an absent entity getMissingDependents returns the whole concatenation of
\* dependents and fullDependents, whether full is true or false.
C7_MissingOfAbsentEntity ==
    (eval.op = "getMissingDependents" /\ ~eval.item.present) =>
        eval.missing = eval.dependents \o eval.fullDependents

\* an absent entity, full false, and names of fullDependents reported as missing
C7_Witness ==
    /\ eval.op = "getMissingDependents"
    /\ ~eval.item.present
    /\ ~eval.full
    /\ Len(eval.fullDependents) = 2
    /\ Len(eval.missing) = Len(eval.dependents) + 2

\* C8: getDependentUris returns the empty sequence for an absent entity, and otherwise the
\* in-order concatenation, over dependents followed by fullDependents, of the arrays held
\* under the names matching *_uri*; other names and non-array values contribute nothing.
C8_DependentUris ==
    eval.op = "getDependentUris" =>
        eval.uris = IF eval.item.present
                    THEN UrisUnder(eval.item, eval.dependents \o eval.fullDependents)
                    ELSE <<>>

\* a duplicate *_uri* name contributes twice, while an array under a name that does not
\* match and a string under a name that matches contribute nothing
C8_Witness ==
    /\ eval.op = "getDependentUris"
    /\ eval.item.present
    /\ eval.dependents = <<N_tracks_uris, N_name>>
    /\ eval.fullDependents = <<N_artists_uris, N_tracks_uris>>
    /\ Get(eval.item, N_name).kind = "array"
    /\ Get(eval.item, N_artists_uris).kind = "string"
    /\ eval.uris = <<"b", "b">>

====
